---------------------------- MODULE Spec2Model ----------------------------
(***************************************************************************)
(* Control plane of the ESP32 multitool: the JSON API handlers and the    *)
(* firmware-update (OTA) handlers of src/web_api_handlers.h, run by the   *)
(* single-threaded WebServer loop, beside the hardware-sampling task that *)
(* shares sharedState through stateMutex.                                 *)
(*                                                                         *)
(* One boot session is modelled: ESP.restart() ends it (restarted).       *)
(* A handler runs to completion in one step; an upload exchange is the    *)
(* sequence of upload callbacks the WebServer makes while it parses one   *)
(* multipart request body, followed by the completion handler.            *)
(***************************************************************************)
EXTENDS Integers, Sequences, FiniteSets, TLC

(***************************************************************************)
(* Bounds of the model.                                                    *)
(***************************************************************************)
\* requests served in the boot session
MaxRequests == 2
\* chunks a client sends in one upload exchange
MaxChunks == 2
\* capacity of the OTA partition, in chunks (UpdateClass::remaining())
PartitionChunks == 3

(***************************************************************************)
(* Values.                                                                 *)
(***************************************************************************)
www_username == "admin"
\* passwords of acceptable length, and one that is too short
Passwords == {"password-A", "password-B"}
ShortPass == "short"
\* the Authorization header of a request: absent, or Basic user:pass
NoCred == [user |-> "", pass |-> ""]
Creds == {NoCred} \cup [user : {"admin"}, pass : Passwords]
                  \cup [user : {"guest"}, pass : {"password-A"}]
Methods == {"GET", "POST"}

\* an optional JSON member: <<>> when absent (or of the wrong type), <<v>> when present
Opt(S) == {<<>>} \cup {<<v>> : v \in S}
\* ArduinoJson's  doc[key] | default
OrDefault(member, default) == IF member = <<>> THEN default ELSE member[1]

\* A JSON integer member: <<v>> when v fits the 32-bit int, <<q, r>> for the
\* number q * 2^31 + r when it does not.  TooBig is 3000000000.
TooBig == <<1, 852516352>>
\* mutant: an absent member reads as 0
AsInt_zero(member, default) == IF Len(member) = 1 THEN member[1] ELSE 0

\* ArduinoJson's  doc[key] | default  with an int default: the default also
\* when the member is not an int, which includes a number outside the int range
AsInt(member, default) == IF Len(member) = 1 THEN member[1] ELSE default

\* one effect of a handler, in the order performed
NoDoc == [none |-> TRUE]
Fx(op) == [op |-> op, code |-> 0, body |-> "", doc |-> NoDoc]
Send(code, body) == [op |-> "send", code |-> code, body |-> body, doc |-> NoDoc]
\* a 200 response whose JSON body is doc
SendJson(doc) == [op |-> "send", code |-> 200, body |-> "json", doc |-> doc]
Challenge == Send(401, "WWW-Authenticate")
MethodNotAllowed == Send(405, "Method Not Allowed")
StatusOk == Send(200, "{status:ok}")
UpdateOK == Send(200, "Update OK - Rebooting...")
UpdateFailed == Send(500, "Update Failed")

Has(seq, e) == \E i \in 1..Len(seq) : seq[i] = e
HasOp(seq, op) == \E i \in 1..Len(seq) : seq[i].op = op
\* every occurrence of a precedes every occurrence of b
Before(seq, a, b) ==
  \A i, j \in 1..Len(seq) : (seq[i] = a /\ seq[j] = b) => i < j

VARIABLES
  www_password,      \* in-memory web password
  ota_password,      \* in-memory OTA password
  preferences,       \* NVS: namespaces auth and mqtt
  stateMutex,        \* "free" or "sampler"
  sharedState,       \* the shared device-state record
  currentPWMValue,
  currentServoAngle,
  servoAttached,
  ledcDuty,          \* last value written to the dimmer channel
  servoPos,          \* last angle written to the servo (-1: none)
  i2cMutex,          \* "free" or "other"
  wireAcks,          \* addresses that acknowledge on the I2C bus
  i2cDevices,        \* the scan result list
  Update,            \* the flash-update target (UpdateClass)
  session,           \* the upload exchange in progress, and what its calls returned
  req,               \* the latest request accepted
  fx,                \* effects of the request being handled, in order
  served,            \* requests accepted by the WebServer since boot
  restarted          \* ESP.restart() was called

credVars == <<www_password, ota_password, preferences>>
stateVars == <<stateMutex, sharedState>>
actuatorVars == <<currentPWMValue, currentServoAngle, servoAttached, ledcDuty, servoPos>>
i2cVars == <<i2cMutex, wireAcks, i2cDevices>>
otaVars == <<Update, session>>
vars == <<www_password, ota_password, preferences, stateMutex, sharedState,
          currentPWMValue, currentServoAngle, servoAttached, ledcDuty, servoPos,
          i2cMutex, wireAcks, i2cDevices, Update, session, req, fx, served, restarted>>

(***************************************************************************)
(* HTTP Basic authentication against the in-memory credentials.           *)
(***************************************************************************)
\* mutant: the password is not compared
authenticate_user_only(cred, username, password) ==
  cred # NoCred /\ cred.user = username

authenticate(cred, username, password) ==
  cred # NoCred /\ cred.user = username /\ cred.pass = password

(***************************************************************************)
(* The flash-update target: arduino-esp32's UpdateClass as the handlers   *)
(* consume it.  running is _size > 0; error is _error (""  is             *)
(* UPDATE_ERROR_OK); data is what has been accepted into the partition,   *)
(* as the sequence of chunk numbers.                                       *)
(***************************************************************************)
UpdateIdle == [running |-> FALSE, error |-> "", data |-> <<>>]
\* _abort(err): _reset() and record the error
Update_abort(err) == [running |-> FALSE, error |-> err, data |-> <<>>]

\* Update.begin(UPDATE_SIZE_UNKNOWN).  how: "ok", "no_partition" or "no_memory".
\* Returns [u |-> the target afterwards, ret |-> the boolean returned].
Update_begin(u, how) ==
  IF u.running
    THEN [u |-> u, ret |-> FALSE]                     \* "already running"
    ELSE IF how = "no_partition"
      THEN [u |-> Update_abort("NO_PARTITION"), ret |-> FALSE]
      ELSE IF how = "no_memory"
        THEN [u |-> UpdateIdle, ret |-> FALSE]        \* malloc failed: no error code
        ELSE [u |-> [running |-> TRUE, error |-> "", data |-> <<>>], ret |-> TRUE]

\* Update.write(buf, len) of chunk c.  flashOk: the sector write succeeds.
\* Returns [u, full |-> the count returned equals len, wrote |-> the partition
\* was written to (or the write was tried and failed)].
Update_write(u, c, flashOk) ==
  IF u.error # "" \/ ~u.running
    THEN [u |-> u, full |-> FALSE, wrote |-> FALSE]   \* returns 0
    ELSE IF Len(u.data) >= PartitionChunks
      THEN [u |-> Update_abort("SPACE"), full |-> FALSE, wrote |-> FALSE]
      ELSE IF ~flashOk
        THEN [u |-> Update_abort("WRITE"), full |-> FALSE, wrote |-> TRUE]
        ELSE [u |-> [u EXCEPT !.data = Append(@, c)], full |-> TRUE, wrote |-> TRUE]

\* the image check of Update.end: the chunks of one image, in order
ImageOK(data) == Len(data) >= 1 /\ \A i \in 1..Len(data) : data[i] = i

\* Update.end(true).  activateOk: setting the boot partition succeeds.
Update_end(u, activateOk) ==
  IF u.error # "" \/ ~u.running
    THEN [u |-> u, ret |-> FALSE]
    ELSE IF ImageOK(u.data) /\ activateOk
      THEN [u |-> UpdateIdle, ret |-> TRUE]           \* _reset()
      ELSE [u |-> Update_abort("ACTIVATE"), ret |-> FALSE]

Update_hasError(u) == u.error # ""

(***************************************************************************)
(* The upload exchange.  session.phase is the status of the latest upload *)
(* callback ("START", "WRITE", "END"), "ABORTED" or "DONE" once the       *)
(* exchange is over, "idle" before the first one.  beginRet, short and    *)
(* endRet are what Update.begin, Update.write and Update.end returned to  *)
(* the handler in this exchange; flashed counts the chunks that reached   *)
(* the partition in this exchange; how is the condition Update.begin met; *)
(* prev is how the exchange before this one ended.                        *)
(***************************************************************************)
\* the latest request the WebServer accepted
NoBody == [json |-> FALSE]
Req(ep, method, cred, body) == [ep |-> ep, method |-> method, cred |-> cred, body |-> body]
NoRequest == Req("", "", NoCred, NoBody)
B2S(b) == IF b THEN "true" ELSE "false"
BeginOutcomes == {"ok", "no_partition", "no_memory"}
NoSession == [phase |-> "idle", cred |-> NoCred, sent |-> 0, beginRet |-> "none",
              short |-> FALSE, endRet |-> "none", flashed |-> 0, how |-> "ok",
              prev |-> "none"]
Over == {"idle", "ABORTED", "DONE"}
Receiving == {"START", "WRITE"}

\* how an exchange ended, as its calls reported it
Outcome(ss) ==
  IF ss.phase = "idle" THEN "none"
  ELSE IF ss.phase = "ABORTED" THEN "aborted"
  ELSE IF ss.beginRet = "none" THEN "no upload"
  ELSE IF ss.beginRet = "false" THEN "begin failed"
  ELSE IF ss.short THEN "short write"
  ELSE IF ss.endRet = "false" THEN "finalize failed"
  ELSE "complete"

\* handleOTAUpdate, one upload callback.  Returns the target afterwards, the
\* effects in order, and what the Update call returned ("none": no call).
handleOTAUpdate(u, cred, status, c, how, flashOk, activateOk) ==
  IF ~authenticate(cred, www_username, www_password)
    THEN [u |-> u, fx |-> <<Challenge>>, ret |-> "none", wrote |-> FALSE]
    ELSE IF status = "START"
      THEN LET r == Update_begin(u, how) IN
           [u |-> r.u, ret |-> B2S(r.ret), wrote |-> FALSE,
            fx |-> <<Fx("Update.begin")>> \o
                   (IF r.ret THEN <<>> ELSE <<Fx("Update.printError")>>)]
      ELSE IF status = "WRITE"
        THEN LET r == Update_write(u, c, flashOk) IN
             [u |-> r.u, ret |-> B2S(r.full), wrote |-> r.wrote,
              fx |-> <<Fx("Update.write")>> \o
                     (IF r.full THEN <<>> ELSE <<Fx("Update.printError")>>)]
        ELSE IF status = "END"
          THEN LET r == Update_end(u, activateOk) IN
               [u |-> r.u, ret |-> B2S(r.ret), wrote |-> FALSE,
                fx |-> <<Fx("Update.end")>> \o
                       (IF r.ret THEN <<>> ELSE <<Fx("Update.printError")>>)]
          ELSE [u |-> u, fx |-> <<>>, ret |-> "none", wrote |-> FALSE]  \* UPLOAD_FILE_ABORTED

\* mutant: the test of Update.hasError() is inverted
handleOTAUpdateDone_inverted(u) ==
  IF ~Update_hasError(u)
    THEN <<UpdateFailed>>
    ELSE <<UpdateOK, Fx("delay"), Fx("ESP.restart")>>

\* mutant: the device restarts after the error response too
handleOTAUpdateDone_restarts(u) ==
  IF Update_hasError(u)
    THEN <<UpdateFailed, Fx("delay"), Fx("ESP.restart")>>
    ELSE <<UpdateOK, Fx("delay"), Fx("ESP.restart")>>

\* handleOTAUpdateDone: the effects, in order
handleOTAUpdateDone(u) ==
  IF Update_hasError(u)
    THEN <<UpdateFailed>>
    ELSE <<UpdateOK, Fx("delay"), Fx("ESP.restart")>>

UpdateReq(cred) == Req("/update", "POST", cred, NoBody)

\* the WebServer accepts the next request: none is in progress
Accept ==
  /\ ~restarted /\ session.phase \in Over /\ served < MaxRequests
  /\ served' = served + 1

\* the first chunk of a file part arrives
UploadStart ==
  \E cred \in Creds, how \in BeginOutcomes :
    /\ Accept
    /\ LET r == handleOTAUpdate(Update, cred, "START", 0, how, TRUE, TRUE) IN
         /\ Update' = r.u
         /\ fx' = r.fx
         /\ session' = [phase |-> "START", cred |-> cred, sent |-> 0,
                        beginRet |-> r.ret, short |-> FALSE, endRet |-> "none",
                        flashed |-> 0, how |-> how, prev |-> Outcome(session)]
    /\ req' = UpdateReq(cred)
    /\ UNCHANGED <<credVars, stateVars, actuatorVars, i2cVars, restarted>>

UploadWrite ==
  \E flashOk \in BOOLEAN :
    /\ ~restarted /\ session.phase \in Receiving /\ session.sent < MaxChunks
    /\ LET r == handleOTAUpdate(Update, session.cred, "WRITE", session.sent + 1,
                                "ok", flashOk, TRUE) IN
         /\ Update' = r.u
         /\ fx' = fx \o r.fx
         /\ session' = [session EXCEPT !.phase = "WRITE", !.sent = @ + 1,
                          !.short = @ \/ (r.ret = "false"),
                          !.flashed = @ + (IF r.wrote THEN 1 ELSE 0)]
    /\ req' = UpdateReq(session.cred)
    /\ UNCHANGED <<credVars, stateVars, actuatorVars, i2cVars, served, restarted>>

UploadEnd ==
  \E activateOk \in BOOLEAN :
    /\ ~restarted /\ session.phase \in Receiving
    /\ LET r == handleOTAUpdate(Update, session.cred, "END", 0, "ok", TRUE, activateOk) IN
         /\ Update' = r.u
         /\ fx' = fx \o r.fx
         /\ session' = [session EXCEPT !.phase = "END", !.endRet = r.ret]
    /\ req' = UpdateReq(session.cred)
    /\ UNCHANGED <<credVars, stateVars, actuatorVars, i2cVars, served, restarted>>

\* the client disconnects mid-body: the callback runs with UPLOAD_FILE_ABORTED
\* and the request is dropped without its completion handler
UploadAborted ==
  /\ ~restarted /\ session.phase \in Receiving
  /\ LET r == handleOTAUpdate(Update, session.cred, "ABORTED", 0, "ok", TRUE, TRUE) IN
       /\ Update' = r.u
       /\ fx' = fx \o r.fx
       /\ session' = [session EXCEPT !.phase = "ABORTED"]
  /\ req' = UpdateReq(session.cred)
  /\ UNCHANGED <<credVars, stateVars, actuatorVars, i2cVars, served, restarted>>

\* the body is parsed: the completion handler runs
UploadDone ==
  /\ ~restarted /\ session.phase = "END"
  /\ fx' = fx \o handleOTAUpdateDone(Update)
  /\ restarted' = HasOp(fx', "ESP.restart")
  /\ session' = [session EXCEPT !.phase = "DONE"]
  /\ req' = UpdateReq(session.cred)
  /\ UNCHANGED <<credVars, stateVars, actuatorVars, i2cVars, Update, served>>

\* a POST to /update that carries no file part: only the completion handler runs
UpdateNoUpload ==
  \E cred \in Creds :
    /\ Accept
    /\ fx' = handleOTAUpdateDone(Update)
    /\ restarted' = HasOp(fx', "ESP.restart")
    /\ session' = [NoSession EXCEPT !.phase = "DONE", !.cred = cred,
                                    !.prev = Outcome(session)]
    /\ req' = UpdateReq(cred)
    /\ UNCHANGED <<credVars, stateVars, actuatorVars, i2cVars, Update>>

(***************************************************************************)
(* The JSON API.                                                           *)
(***************************************************************************)
\* registerAPIHandlers: the verb each path is registered for
Routes == [p \in {"/api/status", "/api/i2c/scan", "/api/network", "/api/firmware"} |-> "GET"]
          @@ [p \in {"/api/relay", "/api/pwm", "/api/servo", "/api/password",
                     "/api/mqtt", "/api/wifi/reset", "/api/reboot", "/update"} |-> "POST"]
Routed(ep, method) == Routes[ep] = method
JsonEndpoints == DOMAIN Routes \ {"/update"}
\* the WebServer's answer when no registered handler matches path and verb
NotFound == Send(404, "Not found")

InvalidJson == Send(400, "{error:Invalid JSON}")
InvalidJsonText == Send(400, "Invalid JSON")
CurrentIncorrect == Send(401, "Current password incorrect")
TooShort == Send(400, "Passwords must be at least 8 characters")

\* request bodies: BadJson does not decode; the others are objects whose
\* members may be absent
BadJson == [json |-> FALSE]
RelayBodies == {BadJson} \cup [json : {TRUE}, state : Opt(BOOLEAN)]
PwmInputs == {-5, 50, 150}
PwmBodies == {BadJson} \cup [json : {TRUE}, value : Opt(PwmInputs) \cup {TooBig}]
ServoInputs == {-10, 45, 200}
ServoBodies == {BadJson} \cup [json : {TRUE}, angle : Opt(ServoInputs) \cup {TooBig}]
PasswordBodies == {BadJson} \cup [json : {TRUE}, current : Opt(Passwords),
                                  newpass : Opt({ShortPass, "password-B"}),
                                  otapass : Opt({ShortPass, "password-C"})]
MqttAll == [json |-> TRUE, server |-> <<"mqtt.local">>, port |-> <<8883>>,
            client |-> <<"bench-1">>, user |-> <<"mqttuser">>, pass |-> <<"mqttpass">>]
MqttNone == [json |-> TRUE, server |-> <<>>, port |-> <<>>, client |-> <<>>,
             user |-> <<>>, pass |-> <<>>]
MqttBodies == {BadJson, MqttAll, MqttNone, [MqttNone EXCEPT !.server = MqttAll.server],
               [MqttAll EXCEPT !.port = <<-1>>], [MqttAll EXCEPT !.port = TooBig]}

constrain(x, lo, hi) == IF x < lo THEN lo ELSE IF x > hi THEN hi ELSE x
\* mutant: the output range is one step too wide
map_wide(x, in_min, in_max, out_min, out_max) ==
  ((x - in_min) * (out_max + 1 - out_min)) \div (in_max - in_min) + out_min

\* Arduino map(): (x - in_min) * (out_max - out_min) / (in_max - in_min) + out_min
map(x, in_min, in_max, out_min, out_max) ==
  ((x - in_min) * (out_max - out_min)) \div (in_max - in_min) + out_min
uint8(x) == x % 256
\* the gamma table of the main sketch, left uninterpreted
gammaCorrect(brightness) == [gamma |-> brightness]
\* the address-to-name lookup of the main sketch, left uninterpreted
getI2CDeviceName(addr) == [nameOf |-> addr]

\* xSemaphoreTake(mutex, ticks): taken at once when free; when held, taken only
\* if the holder gives it within the wait (inTime)
xSemaphoreTake(mutex, inTime) == mutex = "free" \/ inTime

\* the call returns, with or without the mutex, once the ticks given have
\* passed (pdMS_TO_TICKS(100), pdMS_TO_TICKS(500))
\* mutant: the wait is unbounded, the call returns only with the mutex
xSemaphoreTakeReturns_unbounded(mutex, inTime) == mutex = "free" \/ inTime

xSemaphoreTakeReturns(mutex, inTime) == TRUE

\* the probe loop of the scan, for (addr = lo; addr <= hi; addr++): the
\* acknowledging addresses of lo..hi in ascending order (the range is halved
\* to keep the evaluation shallow; the order of probes is the loop's)
\* mutant: the upper half of the range is listed first
RECURSIVE ScanRange_desc(_, _, _)
ScanRange_desc(lo, hi, acks) ==
  IF lo > hi THEN <<>>
  ELSE IF lo = hi
    THEN (IF lo \in acks
            THEN <<[addr |-> lo, name |-> getI2CDeviceName(lo)]>>
            ELSE <<>>)
    ELSE LET mid == (lo + hi) \div 2 IN
         ScanRange_desc(mid + 1, hi, acks) \o ScanRange_desc(lo, mid, acks)

RECURSIVE ScanRange(_, _, _)
ScanRange(lo, hi, acks) ==
  IF lo > hi THEN <<>>
  ELSE IF lo = hi
    THEN (IF lo \in acks
            THEN <<[addr |-> lo, name |-> getI2CDeviceName(lo)]>>
            ELSE <<>>)
    ELSE LET mid == (lo + hi) \div 2 IN
         ScanRange(lo, mid, acks) \o ScanRange(mid + 1, hi, acks)

\* a critical section: take the mutex, the operations, give the mutex
\* mutant: the operations run without the mutex
StateSection_unguarded(ops) == ops

StateSection(ops) == <<Fx("take stateMutex")>> \o ops \o <<Fx("give stateMutex")>>

\* mutant: the bus is scanned inside a critical section of the state mutex
BusSection_nested(ops) ==
  StateSection(<<Fx("take i2cMutex")>> \o ops \o <<Fx("give i2cMutex")>>)

BusSection(ops) == <<Fx("take i2cMutex")>> \o ops \o <<Fx("give i2cMutex")>>

\* Wire.beginTransmission(addr); Wire.endTransmission()
Probe(addr) == [op |-> "Wire probe", code |-> addr, body |-> "", doc |-> NoDoc]
\* the probes of  for (addr = 1; addr < 127; addr++), in loop order
Probes == [i \in 1..126 |-> Probe(i)]

\* mutant: the state fields are copied whether or not the mutex was taken
StatusDoc_unlocked(locked) ==
  [relay |-> <<sharedState.relayState>>,
   sensor |-> <<sharedState.sensorValue>>,
   clients |-> <<sharedState.wifiClients>>,
   ip |-> <<sharedState.ipAddress>>,
   heap |-> <<"ESP.getFreeHeap()">>, uptime |-> <<"millis()">>,
   rssi |-> <<"WiFi.RSSI()">>,
   pwm |-> <<currentPWMValue>>, servo |-> <<currentServoAngle>>]

StatusDoc(locked) ==
  [relay |-> IF locked THEN <<sharedState.relayState>> ELSE <<>>,
   sensor |-> IF locked THEN <<sharedState.sensorValue>> ELSE <<>>,
   clients |-> IF locked THEN <<sharedState.wifiClients>> ELSE <<>>,
   ip |-> IF locked THEN <<sharedState.ipAddress>> ELSE <<>>,
   heap |-> <<"ESP.getFreeHeap()">>, uptime |-> <<"millis()">>,
   rssi |-> <<"WiFi.RSSI()">>,
   pwm |-> <<currentPWMValue>>, servo |-> <<currentServoAngle>>]

handleAPIStatus(cred, inTime) ==
  IF ~authenticate(cred, www_username, www_password)
    THEN fx' = <<Challenge>> /\ UNCHANGED stateMutex
    ELSE IF xSemaphoreTake(stateMutex, inTime)
      THEN /\ stateMutex' = "free"
           /\ fx' = StateSection(<<Fx("read sharedState.relayState"),
                                    Fx("read sharedState.sensorValue"),
                                    Fx("read sharedState.wifiClients"),
                                    Fx("read sharedState.ipAddress")>>)
                    \o <<SendJson(StatusDoc(TRUE))>>
      ELSE /\ xSemaphoreTakeReturns(stateMutex, inTime)
           /\ UNCHANGED stateMutex
           /\ fx' = <<SendJson(StatusDoc(FALSE))>>

\* mutant: after the wait times out the relay state is written all the same
handleAPIRelay_late(cred, method, body, inTime) ==
  IF ~authenticate(cred, www_username, www_password)
    THEN fx' = <<Challenge>> /\ UNCHANGED stateVars
    ELSE IF method # "POST"
      THEN fx' = <<MethodNotAllowed>> /\ UNCHANGED stateVars
      ELSE IF ~body.json
        THEN fx' = <<InvalidJson>> /\ UNCHANGED stateVars
        ELSE LET state == OrDefault(body.state, FALSE) IN
             IF xSemaphoreTake(stateMutex, inTime)
               THEN /\ sharedState' = [sharedState EXCEPT !.relayState = state]
                    /\ stateMutex' = "free"
                    /\ fx' = StateSection(<<Fx("write sharedState.relayState")>>)
                             \o <<StatusOk>>
               ELSE /\ xSemaphoreTakeReturns(stateMutex, inTime)
                    /\ sharedState' = [sharedState EXCEPT !.relayState = state]
                    /\ UNCHANGED stateMutex
                    /\ fx' = <<Fx("write sharedState.relayState"), StatusOk>>

handleAPIRelay(cred, method, body, inTime) ==
  IF ~authenticate(cred, www_username, www_password)
    THEN fx' = <<Challenge>> /\ UNCHANGED stateVars
    ELSE IF method # "POST"
      THEN fx' = <<MethodNotAllowed>> /\ UNCHANGED stateVars
      ELSE IF ~body.json
        THEN fx' = <<InvalidJson>> /\ UNCHANGED stateVars
        ELSE LET state == OrDefault(body.state, FALSE) IN
             IF xSemaphoreTake(stateMutex, inTime)
               THEN /\ sharedState' = [sharedState EXCEPT !.relayState = state]
                    /\ stateMutex' = "free"
                    /\ fx' = StateSection(<<Fx("write sharedState.relayState")>>)
                             \o <<StatusOk>>
               ELSE /\ xSemaphoreTakeReturns(stateMutex, inTime)
                    /\ UNCHANGED stateVars
                    /\ fx' = <<StatusOk>>

handleAPIPWM(cred, method, body) ==
  IF ~authenticate(cred, www_username, www_password)
    THEN fx' = <<Challenge>> /\ UNCHANGED <<currentPWMValue, ledcDuty>>
    ELSE IF method # "POST"
      THEN fx' = <<MethodNotAllowed>> /\ UNCHANGED <<currentPWMValue, ledcDuty>>
      ELSE IF ~body.json
        THEN fx' = <<InvalidJson>> /\ UNCHANGED <<currentPWMValue, ledcDuty>>
        ELSE LET value == constrain(AsInt(body.value, 0), 0, 100)
                 pwm == uint8(map(value, 0, 100, 0, 255))
             IN /\ currentPWMValue' = value
                /\ ledcDuty' = gammaCorrect(pwm)
                /\ fx' = <<Fx("ledcWrite"), StatusOk>>

\* mutant: the servo is attached on every request
handleAPIServo_reattach(cred, method, body) ==
  IF ~authenticate(cred, www_username, www_password)
    THEN fx' = <<Challenge>> /\ UNCHANGED <<currentServoAngle, servoAttached, servoPos>>
    ELSE IF method # "POST"
      THEN fx' = <<MethodNotAllowed>>
           /\ UNCHANGED <<currentServoAngle, servoAttached, servoPos>>
      ELSE IF ~body.json
        THEN fx' = <<InvalidJson>>
             /\ UNCHANGED <<currentServoAngle, servoAttached, servoPos>>
        ELSE LET angle == constrain(AsInt(body.angle, 90), 0, 180) IN
             /\ currentServoAngle' = angle
             /\ servoAttached' = TRUE
             /\ servoPos' = angle
             /\ fx' = <<Fx("myServo.attach"), Fx("myServo.write"), StatusOk>>

handleAPIServo(cred, method, body) ==
  IF ~authenticate(cred, www_username, www_password)
    THEN fx' = <<Challenge>> /\ UNCHANGED <<currentServoAngle, servoAttached, servoPos>>
    ELSE IF method # "POST"
      THEN fx' = <<MethodNotAllowed>>
           /\ UNCHANGED <<currentServoAngle, servoAttached, servoPos>>
      ELSE IF ~body.json
        THEN fx' = <<InvalidJson>>
             /\ UNCHANGED <<currentServoAngle, servoAttached, servoPos>>
        ELSE LET angle == constrain(AsInt(body.angle, 90), 0, 180) IN
             /\ currentServoAngle' = angle
             /\ servoAttached' = TRUE
             /\ servoPos' = angle
             /\ fx' = (IF servoAttached THEN <<>> ELSE <<Fx("myServo.attach")>>)
                      \o <<Fx("myServo.write"), StatusOk>>

\* mutant: the list is cleared only once the bus mutex is taken
handleAPIi2cScan_stale(cred, inTime) ==
  IF ~authenticate(cred, www_username, www_password)
    THEN fx' = <<Challenge>> /\ UNCHANGED <<i2cMutex, i2cDevices>>
    ELSE IF xSemaphoreTake(i2cMutex, inTime)
      THEN /\ i2cDevices' = ScanRange(1, 126, wireAcks)
           /\ i2cMutex' = "free"
           /\ fx' = <<Fx("i2cDevices.clear")>> \o BusSection(Probes)
                    \o <<SendJson([devices |-> i2cDevices'])>>
      ELSE /\ xSemaphoreTakeReturns(i2cMutex, inTime)
           /\ UNCHANGED <<i2cDevices, i2cMutex>>
           /\ fx' = <<SendJson([devices |-> i2cDevices'])>>

handleAPIi2cScan(cred, inTime) ==
  IF ~authenticate(cred, www_username, www_password)
    THEN fx' = <<Challenge>> /\ UNCHANGED <<i2cMutex, i2cDevices>>
    ELSE IF xSemaphoreTake(i2cMutex, inTime)
      THEN /\ i2cDevices' = ScanRange(1, 126, wireAcks)
           /\ i2cMutex' = "free"
           /\ fx' = <<Fx("i2cDevices.clear")>> \o BusSection(Probes)
                    \o <<SendJson([devices |-> i2cDevices'])>>
      ELSE /\ xSemaphoreTakeReturns(i2cMutex, inTime)
           /\ i2cDevices' = <<>>
           /\ UNCHANGED i2cMutex
           /\ fx' = <<Fx("i2cDevices.clear"), SendJson([devices |-> i2cDevices'])>>

\* Preferences (NVS): a key of an open namespace takes the value put
\* mutant: the value is not stored
putString_lost(prefs, ns, key, value) == prefs

putString(prefs, ns, key, value) == [prefs EXCEPT ![ns][key] = <<value>>]

\* the conversion of an int to uint32_t: the number top * 2^31 + low
uint32(x) == [top |-> IF x < 0 THEN 1 ELSE 0,
              low |-> IF x < 0 THEN (x + 2147483647) + 1 ELSE x]
putUInt(prefs, ns, key, value) == [prefs EXCEPT ![ns][key] = <<uint32(value)>>]

\* A member that is absent (or not a string) converts to a null pointer, and
\* strcmp/strlen of a null pointer is undefined: the read either faults
\* (null = "fault": the device panics and restarts, no response is sent) or
\* reads as an empty string (null = "empty").
NullDeref == {"fault", "empty"}
Panic == <<Fx("panic"), Fx("ESP.restart")>>

\* mutant: && for ||
TooShortCheck_both(newPass, otaPass) == Len(newPass) < 8 /\ Len(otaPass) < 8

\* strlen(newPass) < 8 || strlen(otaPass) < 8
TooShortCheck(newPass, otaPass) == Len(newPass) < 8 \/ Len(otaPass) < 8

\* mutant: the lengths are checked before the current password
handleAPIPassword_length_first(cred, method, body, null) ==
  IF ~authenticate(cred, www_username, www_password)
    THEN fx' = <<Challenge>> /\ UNCHANGED credVars
    ELSE IF method # "POST"
      THEN fx' = <<MethodNotAllowed>> /\ UNCHANGED credVars
      ELSE IF ~body.json
        THEN fx' = <<InvalidJsonText>> /\ UNCHANGED credVars
        ELSE LET current == OrDefault(body.current, "")
                 newPass == OrDefault(body.newpass, "")
                 otaPass == OrDefault(body.otapass, "")
             IN
             IF body.current = <<>> /\ null = "fault"
               THEN fx' = Panic /\ UNCHANGED credVars
               ELSE IF null = "fault" /\ (\/ body.newpass = <<>>
                                          \/ Len(newPass) >= 8 /\ body.otapass = <<>>)
                 THEN fx' = Panic /\ UNCHANGED credVars
                 ELSE IF TooShortCheck(newPass, otaPass)
                   THEN fx' = <<TooShort>> /\ UNCHANGED credVars
                   ELSE IF current # www_password
                     THEN fx' = <<CurrentIncorrect>> /\ UNCHANGED credVars
                     ELSE /\ preferences' =
                               putString(putString(preferences, "auth", "pass", newPass),
                                         "auth", "otapass", otaPass)
                          /\ www_password' = newPass
                          /\ ota_password' = otaPass
                          /\ fx' = <<Fx("preferences.begin auth"), Fx("putString pass"),
                                     Fx("putString otapass"), Fx("preferences.end"),
                                     Fx("strcpy www_password"), Fx("strcpy ota_password"),
                                     StatusOk>>

handleAPIPassword(cred, method, body, null) ==
  IF ~authenticate(cred, www_username, www_password)
    THEN fx' = <<Challenge>> /\ UNCHANGED credVars
    ELSE IF method # "POST"
      THEN fx' = <<MethodNotAllowed>> /\ UNCHANGED credVars
      ELSE IF ~body.json
        THEN fx' = <<InvalidJsonText>> /\ UNCHANGED credVars
        ELSE LET current == OrDefault(body.current, "")
                 newPass == OrDefault(body.newpass, "")
                 otaPass == OrDefault(body.otapass, "")
             IN
             IF body.current = <<>> /\ null = "fault"
               THEN fx' = Panic /\ UNCHANGED credVars
               ELSE IF current # www_password
                 THEN fx' = <<CurrentIncorrect>> /\ UNCHANGED credVars
                 ELSE IF null = "fault" /\ (\/ body.newpass = <<>>
                                            \/ Len(newPass) >= 8 /\ body.otapass = <<>>)
                   THEN fx' = Panic /\ UNCHANGED credVars
                   ELSE IF TooShortCheck(newPass, otaPass)
                     THEN fx' = <<TooShort>> /\ UNCHANGED credVars
                     ELSE /\ preferences' =
                               putString(putString(preferences, "auth", "pass", newPass),
                                         "auth", "otapass", otaPass)
                          /\ www_password' = newPass
                          /\ ota_password' = otaPass
                          /\ fx' = <<Fx("preferences.begin auth"), Fx("putString pass"),
                                     Fx("putString otapass"), Fx("preferences.end"),
                                     Fx("strcpy www_password"), Fx("strcpy ota_password"),
                                     StatusOk>>

handleAPIMQTT(cred, method, body) ==
  IF ~authenticate(cred, www_username, www_password)
    THEN fx' = <<Challenge>> /\ UNCHANGED credVars
    ELSE IF method # "POST"
      THEN fx' = <<MethodNotAllowed>> /\ UNCHANGED credVars
      ELSE IF ~body.json
        THEN fx' = <<InvalidJsonText>> /\ UNCHANGED credVars
        ELSE LET p1 == putString(preferences, "mqtt", "server",
                                 OrDefault(body.server, "broker.hivemq.com"))
                 p2 == putUInt(p1, "mqtt", "port", AsInt(body.port, 1883))
                 p3 == putString(p2, "mqtt", "client",
                                 OrDefault(body.client, "ESP32_Multitool"))
                 p4 == putString(p3, "mqtt", "user", OrDefault(body.user, ""))
                 p5 == putString(p4, "mqtt", "pass", OrDefault(body.pass, ""))
             IN
             /\ preferences' = p5
             /\ UNCHANGED <<www_password, ota_password>>
             /\ fx' = <<Fx("preferences.begin mqtt"), Fx("putString server"),
                        Fx("putUInt port"), Fx("putString client"),
                        Fx("putString user"), Fx("putString pass"),
                        Fx("preferences.end"), StatusOk>>

handleAPINetwork(cred) ==
  IF ~authenticate(cred, www_username, www_password)
    THEN fx' = <<Challenge>>
    ELSE fx' = <<SendJson([network |-> TRUE])>>

handleAPIFirmware(cred) ==
  IF ~authenticate(cred, www_username, www_password)
    THEN fx' = <<Challenge>>
    ELSE fx' = <<SendJson([version |-> "2.0.0"])>>

\* mutant: the device restarts before it answers
handleAPIReboot_first(cred, method) ==
  IF ~authenticate(cred, www_username, www_password)
    THEN fx' = <<Challenge>>
    ELSE IF method # "POST"
      THEN fx' = <<MethodNotAllowed>>
      ELSE fx' = <<Fx("ESP.restart"), Send(200, "{status:rebooting}")>>

handleAPIWiFiReset(cred, method) ==
  IF ~authenticate(cred, www_username, www_password)
    THEN fx' = <<Challenge>>
    ELSE IF method # "POST"
      THEN fx' = <<MethodNotAllowed>>
      ELSE fx' = <<Send(200, "{status:resetting}"), Fx("delay"),
                   Fx("wifiManager.resetSettings"), Fx("ESP.restart")>>

handleAPIReboot(cred, method) ==
  IF ~authenticate(cred, www_username, www_password)
    THEN fx' = <<Challenge>>
    ELSE IF method # "POST"
      THEN fx' = <<MethodNotAllowed>>
      ELSE fx' = <<Send(200, "{status:rebooting}"), Fx("delay"), Fx("ESP.restart")>>

(***************************************************************************)
(* The WebServer loop: one request is routed to its handler and runs to   *)
(* completion.  A handler that is not reached leaves everything alone.    *)
(***************************************************************************)
\* verb and body of a request to a path that takes a body
WithBody(bodies) == [method : {"POST"}, body : bodies]
                    \cup [method : {"GET"}, body : {NoBody}]
Bodiless == [method : Methods, body : {NoBody}]
Restart == restarted' = HasOp(fx', "ESP.restart")

APIStatus ==
  \E cred \in Creds, m \in Bodiless, inTime \in BOOLEAN :
    /\ Accept /\ req' = Req("/api/status", m.method, cred, m.body)
    /\ IF Routed("/api/status", m.method)
         THEN handleAPIStatus(cred, inTime)
         ELSE fx' = <<NotFound>> /\ UNCHANGED stateMutex
    /\ Restart
    /\ UNCHANGED <<credVars, sharedState, actuatorVars, i2cVars, otaVars>>

APIRelay ==
  \E cred \in Creds, m \in WithBody(RelayBodies), inTime \in BOOLEAN :
    /\ Accept /\ req' = Req("/api/relay", m.method, cred, m.body)
    /\ IF Routed("/api/relay", m.method)
         THEN handleAPIRelay(cred, m.method, m.body, inTime)
         ELSE fx' = <<NotFound>> /\ UNCHANGED stateVars
    /\ Restart
    /\ UNCHANGED <<credVars, actuatorVars, i2cVars, otaVars>>

APIPWM ==
  \E cred \in Creds, m \in WithBody(PwmBodies) :
    /\ Accept /\ req' = Req("/api/pwm", m.method, cred, m.body)
    /\ IF Routed("/api/pwm", m.method)
         THEN handleAPIPWM(cred, m.method, m.body)
         ELSE fx' = <<NotFound>> /\ UNCHANGED <<currentPWMValue, ledcDuty>>
    /\ Restart
    /\ UNCHANGED <<credVars, stateVars, currentServoAngle, servoAttached, servoPos,
                   i2cVars, otaVars>>

APIServo ==
  \E cred \in Creds, m \in WithBody(ServoBodies) :
    /\ Accept /\ req' = Req("/api/servo", m.method, cred, m.body)
    /\ IF Routed("/api/servo", m.method)
         THEN handleAPIServo(cred, m.method, m.body)
         ELSE fx' = <<NotFound>> /\ UNCHANGED <<currentServoAngle, servoAttached, servoPos>>
    /\ Restart
    /\ UNCHANGED <<credVars, stateVars, currentPWMValue, ledcDuty, i2cVars, otaVars>>

APIi2cScan ==
  \E cred \in Creds, m \in Bodiless, inTime \in BOOLEAN :
    /\ Accept /\ req' = Req("/api/i2c/scan", m.method, cred, m.body)
    /\ IF Routed("/api/i2c/scan", m.method)
         THEN handleAPIi2cScan(cred, inTime)
         ELSE fx' = <<NotFound>> /\ UNCHANGED <<i2cMutex, i2cDevices>>
    /\ Restart
    /\ UNCHANGED <<credVars, stateVars, actuatorVars, wireAcks, otaVars>>

APIPassword ==
  \E cred \in Creds, m \in WithBody(PasswordBodies), null \in NullDeref :
    /\ Accept /\ req' = Req("/api/password", m.method, cred, m.body)
    /\ IF Routed("/api/password", m.method)
         THEN handleAPIPassword(cred, m.method, m.body, null)
         ELSE fx' = <<NotFound>> /\ UNCHANGED credVars
    /\ Restart
    /\ UNCHANGED <<stateVars, actuatorVars, i2cVars, otaVars>>

APIMQTT ==
  \E cred \in Creds, m \in WithBody(MqttBodies) :
    /\ Accept /\ req' = Req("/api/mqtt", m.method, cred, m.body)
    /\ IF Routed("/api/mqtt", m.method)
         THEN handleAPIMQTT(cred, m.method, m.body)
         ELSE fx' = <<NotFound>> /\ UNCHANGED credVars
    /\ Restart
    /\ UNCHANGED <<stateVars, actuatorVars, i2cVars, otaVars>>

APINetwork ==
  \E cred \in Creds, m \in Bodiless :
    /\ Accept /\ req' = Req("/api/network", m.method, cred, m.body)
    /\ IF Routed("/api/network", m.method)
         THEN handleAPINetwork(cred)
         ELSE fx' = <<NotFound>>
    /\ Restart
    /\ UNCHANGED <<credVars, stateVars, actuatorVars, i2cVars, otaVars>>

APIFirmware ==
  \E cred \in Creds, m \in Bodiless :
    /\ Accept /\ req' = Req("/api/firmware", m.method, cred, m.body)
    /\ IF Routed("/api/firmware", m.method)
         THEN handleAPIFirmware(cred)
         ELSE fx' = <<NotFound>>
    /\ Restart
    /\ UNCHANGED <<credVars, stateVars, actuatorVars, i2cVars, otaVars>>

APIWiFiReset ==
  \E cred \in Creds, m \in Bodiless :
    /\ Accept /\ req' = Req("/api/wifi/reset", m.method, cred, m.body)
    /\ IF Routed("/api/wifi/reset", m.method)
         THEN handleAPIWiFiReset(cred, m.method)
         ELSE fx' = <<NotFound>>
    /\ Restart
    /\ UNCHANGED <<credVars, stateVars, actuatorVars, i2cVars, otaVars>>

APIReboot ==
  \E cred \in Creds, m \in Bodiless :
    /\ Accept /\ req' = Req("/api/reboot", m.method, cred, m.body)
    /\ IF Routed("/api/reboot", m.method)
         THEN handleAPIReboot(cred, m.method)
         ELSE fx' = <<NotFound>>
    /\ Restart
    /\ UNCHANGED <<credVars, stateVars, actuatorVars, i2cVars, otaVars>>

(***************************************************************************)
(* The other parties: the hardware-sampling task, which writes            *)
(* sharedState under stateMutex, and whoever else uses the I2C bus.       *)
(***************************************************************************)
SensorValues == {0, 4095}
BusConfigs == {{60, 104}, {0, 1, 126, 127}}

SamplerTake ==
  /\ ~restarted /\ stateMutex = "free"
  /\ stateMutex' = "sampler"
  /\ UNCHANGED <<req, credVars, sharedState, actuatorVars, i2cVars, otaVars, fx, served, restarted>>

SamplerWrite ==
  \E v \in SensorValues \ {sharedState.sensorValue} :
    /\ ~restarted /\ stateMutex = "sampler"
    /\ sharedState' = [sharedState EXCEPT !.sensorValue = v]
    /\ UNCHANGED <<req, credVars, stateMutex, actuatorVars, i2cVars, otaVars, fx, served, restarted>>

SamplerGive ==
  /\ ~restarted /\ stateMutex = "sampler"
  /\ stateMutex' = "free"
  /\ UNCHANGED <<req, credVars, sharedState, actuatorVars, i2cVars, otaVars, fx, served, restarted>>

BusTake ==
  /\ ~restarted /\ i2cMutex = "free"
  /\ i2cMutex' = "other"
  /\ UNCHANGED <<req, credVars, stateVars, actuatorVars, wireAcks, i2cDevices, otaVars, fx,
                 served, restarted>>

BusGive ==
  /\ ~restarted /\ i2cMutex = "other"
  /\ i2cMutex' = "free"
  /\ UNCHANGED <<req, credVars, stateVars, actuatorVars, wireAcks, i2cDevices, otaVars, fx,
                 served, restarted>>

\* devices are plugged into or pulled from the bus
BusChange ==
  \E acks \in BusConfigs \ {wireAcks} :
    /\ ~restarted
    /\ wireAcks' = acks
    /\ UNCHANGED <<req, credVars, stateVars, actuatorVars, i2cMutex, i2cDevices, otaVars, fx,
                   served, restarted>>

(***************************************************************************)
(* The state after setup(): the credentials mirror the auth namespace.    *)
(***************************************************************************)
Init ==
  /\ www_password = "password-A"
  /\ ota_password = www_password
  /\ preferences = [auth |-> [pass |-> <<www_password>>, otapass |-> <<ota_password>>],
                    mqtt |-> [server |-> <<>>, port |-> <<>>, client |-> <<>>,
                              user |-> <<>>, pass |-> <<>>]]
  /\ stateMutex = "free"
  /\ sharedState = [relayState |-> FALSE, sensorValue |-> 0, wifiClients |-> 0,
                    ipAddress |-> "192.168.4.1"]
  /\ currentPWMValue = 0
  /\ currentServoAngle = 90
  /\ servoAttached = FALSE
  /\ ledcDuty = [gamma |-> -1]
  /\ servoPos = -1
  /\ i2cMutex = "free"
  /\ wireAcks = {60, 104}
  /\ i2cDevices = <<>>
  /\ Update = UpdateIdle
  /\ session = NoSession
  /\ req = NoRequest
  /\ fx = <<>>
  /\ served = 0
  /\ restarted = FALSE

Next ==
  \/ APIStatus \/ APIRelay \/ APIPWM \/ APIServo \/ APIi2cScan \/ APIPassword
  \/ APIMQTT \/ APINetwork \/ APIFirmware \/ APIWiFiReset \/ APIReboot
  \/ UploadStart \/ UploadWrite \/ UploadEnd \/ UploadAborted \/ UploadDone
  \/ UpdateNoUpload
  \/ SamplerTake \/ SamplerWrite \/ SamplerGive \/ BusTake \/ BusGive \/ BusChange

Spec == Init /\ [][Next]_vars

\* the update endpoint and the password endpoint alone
NextUpdate ==
  \/ UploadStart \/ UploadWrite \/ UploadEnd \/ UploadAborted \/ UploadDone
  \/ UpdateNoUpload \/ APIPassword

SpecUpdate == Init /\ [][NextUpdate]_vars

\* the two configuration endpoints alone
NextConfig == APIPassword \/ APIMQTT

SpecConfig == Init /\ [][NextConfig]_vars

\* The handlers that take a mutex, while the sampling task and the other
\* user of the bus take theirs and never give them back.
\* a request that gets as far as the wait for a mutex: authenticated, routed,
\* with a body that decodes; none of them gets the mutex from its holder
StuckServe ==
  /\ \/ APIStatus \/ APIRelay \/ APIi2cScan
  /\ Routed(req'.ep, req'.method)
  /\ authenticate(req'.cred, www_username, www_password)
  /\ req'.ep = "/api/relay" => req'.body.json
  /\ stateMutex = "sampler" => stateMutex' = "sampler"
  /\ i2cMutex = "other" => i2cMutex' = "other"

NextStuck ==
  \/ StuckServe
  \/ SamplerTake \/ SamplerWrite \/ BusTake \/ BusChange

\* the WebServer loop keeps calling handleClient: a request whose handler
\* can run to its end is handled
SpecStuck == Init /\ [][NextStuck]_vars /\ WF_vars(StuckServe)

\* the two restarting endpoints, beside the password endpoint
NextRestart == APIReboot \/ APIWiFiReset \/ APIPassword

SpecRestart == Init /\ [][NextRestart]_vars

\* the device endpoints (status, relay, dimmer, servo, bus scan) beside the
\* sampling task and the other users of the bus
NextDevice ==
  \/ APIStatus \/ APIRelay \/ APIPWM \/ APIServo \/ APIi2cScan
  \/ SamplerTake \/ SamplerWrite \/ SamplerGive \/ BusTake \/ BusGive \/ BusChange

SpecDevice == Init /\ [][NextDevice]_vars

(***************************************************************************)
(* Properties.                                                             *)
(***************************************************************************)
\* the Authorization header does not carry the current username and password
BadCredentials(cred, password) == ~(cred.user = "admin" /\ cred.pass = password)
UpdateCalls == {"Update.begin", "Update.write", "Update.end"}
\* the step handles a newly accepted request
Handled == served' = served + 1

\* C1: an update exchange whose credentials do not match makes no
\* Update.begin/write/end call, triggers no restart and does not get the
\* success response.
C1_UnauthenticatedUpdateInert ==
  (req.ep = "/update" /\ BadCredentials(req.cred, www_password)) =>
    /\ \A op \in UpdateCalls : ~HasOp(fx, op)
    /\ ~HasOp(fx, "ESP.restart")
    /\ ~Has(fx, UpdateOK)

\* C2: a request to a JSON API endpoint that fails authentication gets the
\* challenge and changes nothing: device state, PWM value, servo angle and
\* attach flag, I2C list, credentials, both namespaces, outputs, no restart.
C2_UnauthenticatedRequestInert ==
  [][(Handled /\ req'.ep \in JsonEndpoints /\ Routed(req'.ep, req'.method)
        /\ BadCredentials(req'.cred, www_password))
       => (/\ fx' = <<Challenge>>
           /\ UNCHANGED <<sharedState, currentPWMValue, currentServoAngle,
                          servoAttached, i2cDevices, www_password, ota_password,
                          preferences, ledcDuty, servoPos, restarted>>)]_vars

\* an unauthenticated scan request arrived after a scan had found devices and
\* the password had been changed, and left them as they were
C2_Witness ==
  /\ req.ep = "/api/i2c/scan" /\ req.method = "GET"
  /\ BadCredentials(req.cred, www_password)
  /\ i2cDevices # <<>>
  /\ fx = <<Challenge>>

\* the latest request is the upload exchange, made with the current credentials
Authenticated == req.ep = "/update" /\ ~BadCredentials(session.cred, www_password)

\* C3: authenticated Begin (open succeeds), a chunk written short, End: the
\* target is in error, the completion handler answers with the error response
\* and nothing restarts.
C3_ShortWriteFails ==
  (Authenticated /\ session.beginRet = "true" /\ session.short
     /\ session.phase \in {"END", "DONE"}) =>
    /\ Update_hasError(Update)
    /\ session.endRet = "false"
    /\ ~restarted
    /\ session.phase = "DONE" =>
         (Has(fx, UpdateFailed) /\ ~Has(fx, UpdateOK) /\ ~HasOp(fx, "ESP.restart"))

C3_Witness ==
  /\ Authenticated /\ session.beginRet = "true" /\ session.short
  /\ session.sent = 1 /\ session.phase = "DONE"
  /\ Has(fx, UpdateFailed)

\* the exchange has failed: the open at Begin failed or a chunk was written short
SessionFailed == session.beginRet = "false" \/ session.short

\* C4: once the exchange has failed, a later chunk of it never reaches the
\* flash-update target.
C4_NoWriteAfterFailure ==
  [][(session.phase \in Receiving /\ SessionFailed /\ session'.phase = "WRITE")
       => session'.flashed = session.flashed]_vars

\* C5: if the open fails at Begin of an authenticated exchange, the completion
\* handler answers with the error response and nothing restarts.
C5_BeginFailureFails ==
  (Authenticated /\ session.beginRet = "false" /\ session.phase = "DONE") =>
    (Has(fx, UpdateFailed) /\ ~Has(fx, UpdateOK) /\ ~restarted)

\* C6: an update exchange restarts the device only after End validated the
\* image, and then only after the success response.
C6_RestartOnlyWhenComplete ==
  (req.ep = "/update" /\ HasOp(fx, "ESP.restart")) =>
    /\ session.endRet = "true"
    /\ Has(fx, UpdateOK)
    /\ Before(fx, UpdateOK, Fx("ESP.restart"))

\* End validated the image of this exchange and rejected it
FinalizeFailed ==
  /\ req.ep = "/update" /\ session.phase \in {"END", "DONE"}
  /\ session.endRet = "false" /\ Update.error = "ACTIVATE"

\* C7: when End fails validation the target is in error, the completion
\* handler answers with the error response, the device does not restart, and
\* the next upload opens a clean target whenever the open can succeed.
C7_FinalizeFailureKeepsServing ==
  /\ FinalizeFailed =>
       /\ Update_hasError(Update) /\ ~Update.running
       /\ ~restarted
       /\ session.phase = "DONE" =>
            (Has(fx, UpdateFailed) /\ ~Has(fx, UpdateOK) /\ ~HasOp(fx, "ESP.restart"))
  /\ (session.prev = "finalize failed" /\ session.phase = "START"
        /\ Authenticated /\ session.how = "ok") =>
       (session.beginRet = "true" /\ Update = [UpdateIdle EXCEPT !.running = TRUE])

\* after a failed finalize a second upload was accepted and completed
C7_Witness ==
  /\ req.ep = "/update" /\ session.prev = "finalize failed"
  /\ session.phase = "DONE" /\ session.endRet = "true"
  /\ Has(fx, UpdateOK)

\* C8: after the upload callback has run with the aborted status, the
\* flash-update target is not in progress and holds no partial data.
C8_AbortDiscards ==
  session.phase = "ABORTED" => (~Update.running /\ Update.data = <<>>)

\* C9: after an exchange that ended in failure the target is idle, and the
\* next authenticated upload whose open can succeed starts on a clean target.
C9_FreshUploadAfterFailure ==
  /\ (session.phase \in Over /\ ~restarted) => ~Update.running
  /\ (session.phase = "START" /\ Authenticated /\ session.how = "ok") =>
       (session.beginRet = "true" /\ Update = [UpdateIdle EXCEPT !.running = TRUE])

\* a member is present and at least 8 characters long
LongEnough(member) == member # <<>> /\ Len(member[1]) >= 8
\* the precondition of a password update, on the request body
PasswordUpdateAllowed(body, password) ==
  /\ body.json
  /\ body.current = <<password>>
  /\ LongEnough(body.newpass) /\ LongEnough(body.otapass)

\* C10: an authenticated POST password request succeeds only when current
\* equals the web password and newpass and otapass have 8 characters or more;
\* otherwise both passwords and the auth namespace stay as they were.
C10_PasswordPrecondition ==
  [][(Handled /\ req'.ep = "/api/password" /\ req'.method = "POST"
        /\ ~BadCredentials(req'.cred, www_password))
       => /\ Has(fx', StatusOk) => PasswordUpdateAllowed(req'.body, www_password)
          /\ ~PasswordUpdateAllowed(req'.body, www_password) =>
               UNCHANGED <<www_password, ota_password, preferences>>]_vars

\* the current password was right and the new one too short: rejected
C10_Witness ==
  /\ req.ep = "/api/password" /\ req.method = "POST"
  /\ ~BadCredentials(req.cred, www_password)
  /\ req.body.json /\ req.body.current = <<www_password>>
  /\ req.body.newpass = <<ShortPass>>
  /\ fx = <<TooShort>>

\* an effect that writes the durable store / the in-memory passwords
StoreOps == {"putString pass", "putString otapass"}
MirrorOps == {"strcpy www_password", "strcpy ota_password"}

\* C11: the in-memory web and OTA passwords always equal the persisted keys
\* pass and otapass of the auth namespace, and a successful password update
\* writes both keys of the durable store before it writes the in-memory copy.
C11_MirrorConsistent ==
  [][/\ (preferences'.auth.pass = <<www_password'>>
          /\ preferences'.auth.otapass = <<ota_password'>>)
     /\ (Handled /\ req'.ep = "/api/password" /\ Has(fx', StatusOk)) =>
          /\ \A op \in StoreOps \cup MirrorOps : HasOp(fx', op)
          /\ \A i, j \in 1..Len(fx') :
               (fx'[i].op \in StoreOps /\ fx'[j].op \in MirrorOps) => i < j]_vars

\* a password update succeeded and set two different passwords
C11_Witness ==
  /\ req.ep = "/api/password" /\ Has(fx, StatusOk)
  /\ www_password = "password-B" /\ ota_password = "password-C"
  /\ preferences.auth = [pass |-> <<"password-B">>, otapass |-> <<"password-C">>]

\* clamp of a JSON integer, of any size, to lo..hi
Clamp(member, lo, hi) ==
  IF Len(member) = 2
    THEN (IF member[1] > 0 THEN hi ELSE lo)
    ELSE IF member[1] < lo THEN lo ELSE IF member[1] > hi THEN hi ELSE member[1]
\* the step handles an authenticated POST to ep whose body decodes
Accepted(ep) ==
  /\ Handled /\ req'.ep = ep /\ req'.method = "POST"
  /\ ~BadCredentials(req'.cred, www_password) /\ req'.body.json

\* C12: after an accepted pwm request with integer value v the stored PWM
\* value is clamp(v, 0, 100), and the stored PWM value is always in 0..100.
C12_PwmClamped ==
  [][/\ currentPWMValue' \in 0..100
     /\ (Accepted("/api/pwm") /\ req'.body.value # <<>>) =>
          currentPWMValue' = Clamp(req'.body.value, 0, 100)]_vars

\* C13: after an accepted servo request with integer angle a the stored angle
\* is clamp(a, 0, 180) and is the angle written to the servo, and the stored
\* angle is always in 0..180.
C13_ServoClamped ==
  [][/\ currentServoAngle' \in 0..180
     /\ (Accepted("/api/servo") /\ req'.body.angle # <<>>) =>
          /\ currentServoAngle' = Clamp(req'.body.angle, 0, 180)
          /\ servoPos' = currentServoAngle'
          /\ HasOp(fx', "myServo.write")]_vars

\* the step handles an authenticated GET of ep
Asked(ep) ==
  /\ Handled /\ req'.ep = ep /\ req'.method = "GET"
  /\ ~BadCredentials(req'.cred, www_password)
\* the sampling task held the state mutex for the whole wait of the handler
StateLockTimedOut == stateMutex = "sampler" /\ stateMutex' = "sampler"
\* another user held the bus mutex for the whole wait of the handler
BusLockTimedOut == i2cMutex = "other" /\ i2cMutex' = "other"
IsSend(e) == e.op = "send"
IsProbe(e) == e.op = "Wire probe"
StateFields == {"relay", "sensor", "clients", "ip"}

\* C14: an authenticated status request gets exactly one response, a 200
\* whose document has heap, uptime and rssi, whether or not the state mutex was
\* taken; when the wait for the mutex timed out the document has none of
\* relay, sensor, clients, ip and the response is still that 200.
C14_StatusAlwaysAnswers ==
  [][Asked("/api/status") =>
       LET sends == SelectSeq(fx', IsSend) IN
       /\ Len(sends) = 1 /\ fx'[Len(fx')] = sends[1]
       /\ sends[1].code = 200 /\ sends[1].body = "json"
       /\ sends[1].doc.heap # <<>> /\ sends[1].doc.uptime # <<>>
       /\ sends[1].doc.rssi # <<>>
       /\ StateLockTimedOut => \A f \in StateFields : sends[1].doc[f] = <<>>]_vars

\* the sampler held the mutex, and the status response came without the
\* state fields
C14_Witness ==
  /\ req.ep = "/api/status" /\ req.method = "GET"
  /\ ~BadCredentials(req.cred, www_password)
  /\ stateMutex = "sampler"
  /\ Len(fx) = 1 /\ fx[1].code = 200
  /\ fx[1].doc.relay = <<>> /\ fx[1].doc.heap # <<>>

\* C15: when the wait for the state mutex times out in an accepted relay
\* request, the shared state is left as it was and the response is the
\* success acknowledgement alone.
C15_RelayDroppedOnTimeout ==
  [][(Accepted("/api/relay") /\ StateLockTimedOut) =>
       (sharedState' = sharedState /\ fx' = <<StatusOk>>)]_vars

\* the relay was to be switched on while the sampler held the mutex: it
\* stayed off and the request was acknowledged
C15_Witness ==
  /\ req.ep = "/api/relay" /\ req.method = "POST"
  /\ ~BadCredentials(req.cred, www_password)
  /\ req.body.json /\ req.body.state = <<TRUE>>
  /\ stateMutex = "sampler" /\ ~sharedState.relayState
  /\ fx = <<StatusOk>>

\* the number of effects op among the first i of seq
Count(seq, i, op) == Cardinality({j \in 1..i : seq[j].op = op})
\* after the first i effects of seq the handler holds the state / bus mutex
HoldsState(seq, i) == Count(seq, i, "take stateMutex") > Count(seq, i, "give stateMutex")
HoldsBus(seq, i) == Count(seq, i, "take i2cMutex") > Count(seq, i, "give i2cMutex")
StateReads == {"read sharedState.relayState", "read sharedState.sensorValue",
               "read sharedState.wifiClients", "read sharedState.ipAddress"}
StateAccess == StateReads \cup {"write sharedState.relayState"}

\* C16: a handler reads or writes the shared state only while it holds the
\* state mutex, and has given the mutex back when it returns; the shared state
\* changes in a request only by such a write, and outside a request only
\* while the sampling task holds the mutex; the state fields of a status
\* response are read in one critical section and are one snapshot of the
\* record.
C16_StateUnderLock ==
  [][/\ Handled =>
          /\ \A i \in {k \in 1..Len(fx') : fx'[k].op \in StateAccess} :
               HoldsState(fx', i)
          /\ ~HoldsState(fx', Len(fx'))
          /\ stateMutex' \in {"free", "sampler"}
          /\ sharedState' # sharedState => HasOp(fx', "write sharedState.relayState")
     /\ (Asked("/api/status") /\ HasOp(fx', "take stateMutex")) =>
          /\ Count(fx', Len(fx'), "take stateMutex") = 1
          /\ \A op \in StateReads : Count(fx', Len(fx'), op) = 1
          /\ LET doc == fx'[Len(fx')].doc IN
               /\ doc.relay = <<sharedState.relayState>>
               /\ doc.sensor = <<sharedState.sensorValue>>
               /\ doc.clients = <<sharedState.wifiClients>>
               /\ doc.ip = <<sharedState.ipAddress>>
     /\ (~Handled /\ sharedState' # sharedState) => stateMutex = "sampler"]_vars

\* after the sampling task wrote a new sensor value and gave the mutex, a
\* status request took it and read the record
C16_Witness ==
  /\ req.ep = "/api/status" /\ HasOp(fx, "take stateMutex")
  /\ HasOp(fx, "read sharedState.sensorValue")
  /\ sharedState.sensorValue = 4095
  /\ fx[Len(fx)].doc.sensor = <<4095>>

\* C17: no handler takes one of the two mutexes while it holds the other, and
\* none holds a mutex when it returns.
C17_LocksNeverNested ==
  [][Handled =>
       /\ \A i \in {k \in 1..Len(fx') :
                     fx'[k].op \in {"take stateMutex", "take i2cMutex"}} :
            ~(HoldsState(fx', i) /\ HoldsBus(fx', i))
       /\ ~HoldsState(fx', Len(fx')) /\ ~HoldsBus(fx', Len(fx'))]_vars

\* a scan took the bus mutex while the sampling task held the state mutex
C17_Witness ==
  /\ req.ep = "/api/i2c/scan" /\ HasOp(fx, "take i2cMutex")
  /\ stateMutex = "sampler" /\ i2cMutex = "free"

\* C18: an authenticated scan that takes the bus mutex probes 1..126 in
\* ascending order and answers with exactly the acknowledging addresses among
\* them, each once, in ascending order, whatever an earlier scan had found.
C18_ScanExact ==
  [][(Asked("/api/i2c/scan") /\ ~BusLockTimedOut) =>
       LET probes == SelectSeq(fx', IsProbe)
           found == i2cDevices'
       IN
       /\ Len(probes) = 126 /\ \A i \in 1..126 : probes[i].code = i
       /\ {found[i].addr : i \in 1..Len(found)} = wireAcks \cap (1..126)
       /\ \A i, j \in 1..Len(found) : i < j => found[i].addr < found[j].addr
       /\ \A i \in 1..Len(found) : found[i].name = getI2CDeviceName(found[i].addr)
       /\ fx'[Len(fx')] = SendJson([devices |-> found])]_vars

\* devices sit at 0, 1, 126 and 127: the scan lists 1 and 126
C18_Witness ==
  /\ req.ep = "/api/i2c/scan" /\ HasOp(fx, "take i2cMutex")
  /\ wireAcks = {0, 1, 126, 127}
  /\ Len(i2cDevices) = 2 /\ i2cDevices[1].addr = 1 /\ i2cDevices[2].addr = 126
  /\ fx[Len(fx)] = SendJson([devices |-> i2cDevices])

\* C19: when the wait for the bus mutex times out, an authenticated scan
\* probes nothing and answers 200 with an empty device list, whatever the
\* list held before.
C19_ScanEmptyOnTimeout ==
  [][(Asked("/api/i2c/scan") /\ BusLockTimedOut) =>
       /\ SelectSeq(fx', IsProbe) = <<>>
       /\ SelectSeq(fx', IsSend) = <<SendJson([devices |-> <<>>])>>
       /\ i2cDevices' = <<>>]_vars

\* the bus was busy, devices were present, and the scan answered with an
\* empty list
C19_Witness ==
  /\ req.ep = "/api/i2c/scan" /\ req.method = "GET"
  /\ ~BadCredentials(req.cred, www_password)
  /\ i2cMutex = "other" /\ wireAcks # {}
  /\ i2cDevices = <<>>
  /\ fx[Len(fx)] = SendJson([devices |-> <<>>])

\* the unsigned 32-bit value u is the JSON integer member
SameNumber(u, member) ==
  \/ Len(member) = 1 /\ member[1] >= 0 /\ u = [top |-> 0, low |-> member[1]]
  \/ Len(member) = 2 /\ member[1] = 1 /\ u = [top |-> 1, low |-> member[2]]
\* the value of a string key: the member when supplied, else the default
Persisted(member, default) == IF member = <<>> THEN <<default>> ELSE member
MqttPuts == {"putString server", "putUInt port", "putString client",
             "putString user", "putString pass"}

\* C20: an accepted mqtt request opens the mqtt namespace once, writes its
\* five keys and closes it; each key holds the supplied field, or its default
\* when the field is absent: broker.hivemq.com, 1883, ESP32_Multitool, empty,
\* empty.
C20_MqttPersistedInFull ==
  [][Accepted("/api/mqtt") =>
       LET body == req'.body
           mqtt == preferences'.mqtt
       IN
       /\ Count(fx', Len(fx'), "preferences.begin mqtt") = 1
       /\ Count(fx', Len(fx'), "preferences.end") = 1
       /\ \A op \in MqttPuts : Count(fx', Len(fx'), op) = 1
       /\ \A i \in 1..Len(fx') : fx'[i].op \in MqttPuts =>
            Count(fx', i, "preferences.begin mqtt") > Count(fx', i, "preferences.end")
       /\ mqtt.server = Persisted(body.server, "broker.hivemq.com")
       /\ mqtt.client = Persisted(body.client, "ESP32_Multitool")
       /\ mqtt.user = Persisted(body.user, "")
       /\ mqtt.pass = Persisted(body.pass, "")
       /\ IF body.port = <<>>
            THEN mqtt.port = <<[top |-> 0, low |-> 1883]>>
            ELSE SameNumber(mqtt.port[1], body.port)]_vars

\* the endpoints that take a JSON body
BodyEndpoints == {"/api/relay", "/api/pwm", "/api/servo", "/api/password", "/api/mqtt"}
\* what a request may change: device state, stored values, outputs,
\* credentials, both namespaces, the scan list, and whether the device restarts
Mutable == <<sharedState, currentPWMValue, currentServoAngle, servoAttached,
             ledcDuty, servoPos, i2cDevices, www_password, ota_password,
             preferences, restarted>>

\* C21: an authenticated POST with an undecodable body to relay, pwm, servo,
\* password or mqtt is answered with the 400 whose body is the JSON object
\* {"error": ...}, and changes nothing.
C21_MalformedJsonStructured400 ==
  [][(Handled /\ req'.ep \in BodyEndpoints /\ req'.method = "POST"
        /\ ~BadCredentials(req'.cred, www_password) /\ ~req'.body.json)
       => (fx' = <<InvalidJson>> /\ UNCHANGED Mutable)]_vars

\* the endpoints registered for POST alone
PostEndpoints == BodyEndpoints \cup {"/api/wifi/reset", "/api/reboot"}

\* C22: an authenticated request with another verb to a POST-only endpoint
\* is answered 405 Method Not Allowed and nothing else happens: nothing is
\* changed or persisted, no output is driven, nothing restarts.
C22_WrongVerb405 ==
  [][(Handled /\ req'.ep \in PostEndpoints /\ req'.method # "POST"
        /\ ~BadCredentials(req'.cred, www_password))
       => (fx' = <<MethodNotAllowed>> /\ UNCHANGED Mutable)]_vars

RestartEndpoints == {"/api/reboot", "/api/wifi/reset"}
\* every effect of seq with operation a comes before every one with operation b
OpBefore(seq, a, b) ==
  \A i, j \in 1..Len(seq) : (seq[i].op = a /\ seq[j].op = b) => i < j

\* C23: a request to reboot or wifi/reset restarts the device only when it is
\* an authenticated POST, and then a 200 response is sent before the
\* restart; for wifi/reset the provisioning state is cleared after the
\* response and before the restart, and not at all when nothing restarts.
C23_RestartAfterResponse ==
  [][(Handled /\ req'.ep \in RestartEndpoints) =>
       /\ (HasOp(fx', "ESP.restart") \/ HasOp(fx', "wifiManager.resetSettings")) =>
            /\ req'.method = "POST" /\ ~BadCredentials(req'.cred, www_password)
            /\ HasOp(fx', "send") /\ fx'[1].op = "send" /\ fx'[1].code = 200
            /\ OpBefore(fx', "send", "ESP.restart")
            /\ fx'[Len(fx')].op = "ESP.restart"
       /\ (req'.ep = "/api/wifi/reset" /\ HasOp(fx', "ESP.restart")) =>
            /\ HasOp(fx', "wifiManager.resetSettings")
            /\ OpBefore(fx', "send", "wifiManager.resetSettings")
            /\ OpBefore(fx', "wifiManager.resetSettings", "ESP.restart")
       /\ (req'.ep = "/api/reboot") => ~HasOp(fx', "wifiManager.resetSettings")
       /\ restarted' = HasOp(fx', "ESP.restart")]_vars

\* after the password was changed, a wifi/reset with the new password
\* answered, cleared the provisioning state and restarted
C23_Witness ==
  /\ req.ep = "/api/wifi/reset" /\ req.method = "POST"
  /\ www_password = "password-B" /\ req.cred.pass = "password-B"
  /\ restarted
  /\ fx[1].op = "send" /\ HasOp(fx, "wifiManager.resetSettings")

\* C24: the servo is unattached until the first accepted servo request; that
\* request attaches it, once, before it writes the angle; later requests do
\* not attach again, nothing detaches it, and a servo request that is
\* rejected (credentials, verb, undecodable body) does not attach it.
C24_ServoAttachedOnce ==
  [][/\ servoAttached => servoAttached'
     /\ Handled =>
          /\ ~HasOp(fx', "myServo.detach")
          /\ Count(fx', Len(fx'), "myServo.attach") <= 1
          /\ HasOp(fx', "myServo.attach") =>
               /\ ~servoAttached /\ servoAttached'
               /\ Accepted("/api/servo")
               /\ OpBefore(fx', "myServo.attach", "myServo.write")
          /\ (servoAttached' /\ ~servoAttached) => HasOp(fx', "myServo.attach")
          /\ Accepted("/api/servo") => (servoAttached' /\ HasOp(fx', "myServo.write"))
          /\ ~Accepted("/api/servo") => (UNCHANGED servoAttached
                                          /\ ~HasOp(fx', "myServo.write"))]_vars

\* a second accepted servo request wrote its angle without attaching again
C24_Witness ==
  /\ req.ep = "/api/servo" /\ served = 2 /\ servoAttached
  /\ currentServoAngle = 45 /\ servoPos = 45
  /\ HasOp(fx, "myServo.write") /\ ~HasOp(fx, "myServo.attach")

\* C25: an accepted pwm request with clamped percentage p writes
\* gammaCorrect(d) to the dimmer channel, exactly once, where d is p * 255
\* / 100 rounded down; for every p in 0..100 the 8-bit duty computed is that
\* d and lies in 0..255, with 0 for 0 and 255 for 100.
C25_DimmerDuty ==
  [][Accepted("/api/pwm") =>
       LET p == currentPWMValue'
           d == (p * 255) \div 100
       IN
       /\ p \in 0..100 /\ d \in 0..255
       /\ ledcDuty' = gammaCorrect(d)
       /\ Count(fx', Len(fx'), "ledcWrite") = 1
       /\ \A q \in 0..100 :
            /\ uint8(map(q, 0, 100, 0, 255)) = (q * 255) \div 100
            /\ map(q, 0, 100, 0, 255) \in 0..255
       /\ uint8(map(0, 0, 100, 0, 255)) = 0
       /\ uint8(map(100, 0, 100, 0, 255)) = 255]_vars

\* a request for 150 percent drove the output at gammaCorrect(255)
C25_Witness ==
  /\ req.ep = "/api/pwm" /\ req.method = "POST" /\ req.body.json
  /\ req.body.value = <<150>>
  /\ currentPWMValue = 100 /\ ledcDuty = gammaCorrect(255)
  /\ HasOp(fx, "ledcWrite")

\* C26: on the endpoints that check credentials, verb and body, in that
\* order: a request with bad credentials and also a wrong verb or an
\* undecodable body gets the authentication challenge, and an authenticated
\* request with a wrong verb and an undecodable body gets 405.
C26_CheckOrder ==
  [][(Handled /\ req'.ep \in PostEndpoints) =>
       /\ (BadCredentials(req'.cred, www_password)
             /\ (req'.method # "POST" \/ ~req'.body.json)) =>
            fx' = <<Challenge>>
       /\ (~BadCredentials(req'.cred, www_password)
             /\ req'.method # "POST" /\ ~req'.body.json) =>
            fx' = <<MethodNotAllowed>>]_vars

\* a member is absent or shorter than 8 characters
Short(member) == member = <<>> \/ Len(member[1]) < 8

\* C27: in an accepted password request, a current password that does not
\* match is answered 401 whatever the lengths of newpass and otapass, and the
\* 400 for length is sent only when current matches and newpass or otapass
\* is shorter than 8 characters.
C27_CurrentBeforeLength ==
  [][Accepted("/api/password") =>
       /\ (req'.body.current # <<>> /\ req'.body.current # <<www_password>>) =>
            (fx' = <<CurrentIncorrect>> /\ UNCHANGED credVars)
       /\ Has(fx', TooShort) =>
            /\ req'.body.current = <<www_password>>
            /\ Short(req'.body.newpass) \/ Short(req'.body.otapass)]_vars

\* the current password was wrong and the new one too short: 401, not 400
C27_Witness ==
  /\ req.ep = "/api/password" /\ req.method = "POST"
  /\ ~BadCredentials(req.cred, www_password) /\ req.body.json
  /\ req.body.current = <<"password-B">> /\ www_password = "password-A"
  /\ req.body.newpass = <<ShortPass>>
  /\ fx = <<CurrentIncorrect>>

\* C28: an accepted password request in which current, newpass or otapass is
\* absent is answered with an error response (401 or 400) and nothing else:
\* the passwords and the auth namespace stay as they were, and the handler
\* does not end without a response.
C28_AbsentMemberRejected ==
  [][(Accepted("/api/password")
        /\ (\/ req'.body.current = <<>> \/ req'.body.newpass = <<>>
            \/ req'.body.otapass = <<>>))
       => /\ fx' \in {<<CurrentIncorrect>>, <<TooShort>>}
          /\ UNCHANGED credVars
          /\ ~restarted']_vars

\* C29: an accepted request whose body omits its field applies the default:
\* relay sets the relay state to false (when the state mutex is taken), pwm
\* stores 0 and drives the output for 0, servo stores and writes 90.
C29_FieldDefaults ==
  [][/\ (Accepted("/api/relay") /\ req'.body.state = <<>> /\ ~StateLockTimedOut) =>
          (sharedState'.relayState = FALSE /\ Has(fx', StatusOk))
     /\ (Accepted("/api/pwm") /\ req'.body.value = <<>>) =>
          /\ currentPWMValue' = 0 /\ ledcDuty' = gammaCorrect(0)
          /\ HasOp(fx', "ledcWrite") /\ Has(fx', StatusOk)
     /\ (Accepted("/api/servo") /\ req'.body.angle = <<>>) =>
          /\ currentServoAngle' = 90 /\ servoPos' = 90
          /\ HasOp(fx', "myServo.write") /\ Has(fx', StatusOk)]_vars

\* after an earlier servo request, a request without an angle wrote 90
C29_Witness ==
  /\ req.ep = "/api/servo" /\ req.method = "POST"
  /\ ~BadCredentials(req.cred, www_password)
  /\ req.body.json /\ req.body.angle = <<>>
  /\ served = 2 /\ ~HasOp(fx, "myServo.attach")
  /\ currentServoAngle = 90 /\ servoPos = 90

\* C30: with the state mutex and the bus mutex taken by the other party and
\* never given back, every request to status, relay or i2c/scan still
\* completes with a response: the next request is always served.
C30_HandlersTerminate ==
  \A n \in 0..(MaxRequests - 1) :
    (served = n) ~> (served = n + 1 /\ HasOp(fx, "send"))

\* both mutexes were held for good and the last request, a scan, was answered
\* with an empty list
C30_Witness ==
  /\ stateMutex = "sampler" /\ i2cMutex = "other"
  /\ served = MaxRequests /\ req.ep = "/api/i2c/scan"
  /\ fx = <<Fx("i2cDevices.clear"), SendJson([devices |-> <<>>])>>

\* C31: once a password update has replaced the initial web password, every
\* request is authenticated against the new one: a request that presents
\* anything else (the old password included) is challenged and changes no
\* credential, a request that presents the new one is not challenged, and a
\* later password update succeeds only with current equal to the new one.
C31_NewPasswordTakesOver ==
  [][(Handled /\ Routed(req'.ep, req'.method) /\ www_password # "password-A") =>
       /\ BadCredentials(req'.cred, www_password) =>
            /\ Has(fx', Challenge)
            /\ ~Has(fx', UpdateOK) /\ ~HasOp(fx', "ESP.restart")
            /\ UNCHANGED credVars
       /\ ~BadCredentials(req'.cred, www_password) => ~Has(fx', Challenge)
       /\ (req'.ep = "/api/password" /\ Has(fx', StatusOk)) =>
            req'.body.current = <<www_password>>]_vars

\* the value an accepted request asks for: the clamp of its field, or the
\* default when the field is absent
Asks(member, lo, hi, default) ==
  IF member = <<>> THEN default ELSE Clamp(member, lo, hi)

\* C32: the stored pwm and servo values are 0 and 90 before any request, are
\* set by an accepted pwm / servo request to the clamp of its field, also
\* while the sampling task holds the state mutex, and change in no other
\* way; an authenticated status request reports the two stored values
\* whether or not it gets the state mutex.
C32_StatusReportsActuators ==
  [][/\ served = 0 => (currentPWMValue = 0 /\ currentServoAngle = 90)
     /\ IF Accepted("/api/pwm")
          THEN /\ currentPWMValue' = Asks(req'.body.value, 0, 100, 0)
               /\ HasOp(fx', "ledcWrite") /\ Has(fx', StatusOk)
               /\ UNCHANGED stateMutex
          ELSE UNCHANGED currentPWMValue
     /\ IF Accepted("/api/servo")
          THEN /\ currentServoAngle' = Asks(req'.body.angle, 0, 180, 90)
               /\ HasOp(fx', "myServo.write") /\ Has(fx', StatusOk)
               /\ UNCHANGED stateMutex
          ELSE UNCHANGED currentServoAngle
     /\ Asked("/api/status") =>
          /\ fx'[Len(fx')].doc.pwm = <<currentPWMValue>>
          /\ fx'[Len(fx')].doc.servo = <<currentServoAngle>>]_vars

=============================================================================
